---- MODULE Spec2Model ----
(***************************************************************************)
(* Verification model of hades/utils.py: the subgraph / energy algebra     *)
(* (bqm_reduced_to, bqm_induced_by, bqm_edges_between_variables), the move *)
(* ranker (flip_energy_gains_naive, flip_energy_gains_iterative,           *)
(* select_localsearch_adversaries), the Chimera tiling helper and the      *)
(* sample algebra (updated_sample, sample_as_list, sample_as_dict).        *)
(*                                                                         *)
(* Numbers.  Biases and energies are Python floats; utils.py halves a      *)
(* coupling (j / 2.0, line 99).  Every bias, offset, energy and gain is    *)
(* therefore kept here as an integer count of HALVES (the stored n stands  *)
(* for the real n/2); Real(n) embeds the integer n.  Sample values and     *)
(* variable labels are plain integers.                                     *)
(*                                                                         *)
(* Python objects.  A mutable object (a model, a dict) lives in `heap`, a  *)
(* sequence indexed by object id, so that copying and aliasing can be told *)
(* apart.  A sample passed by value is a tagged value, PyDict or PyList.   *)
(* A Python list [x0, x1, ...] is the TLA+ sequence <<x0, x1, ...>>: the   *)
(* Python index i is the TLA+ index i + 1.  None is <<>>, a given value x  *)
(* is <<x>>.                                                               *)
(***************************************************************************)
EXTENDS Integers, Sequences, FiniteSets, TLC

VARIABLES heap, sample, labeling, call, ret

vars == <<heap, sample, labeling, call, ret>>

(***************************** bounds **************************************)
\* largest number of variables of a model
MaxVars == 3
\* largest number of terms of a model: non-zero linear biases plus edges
MaxTerms == 2
\* the labels of a model are base .. base + n - 1, base one of these
Bases == {0, 1}
\* largest max_n passed to select_localsearch_adversaries
MaxN == 2

\* the labels of a sample are drawn from 0 .. MaxLabel
MaxLabel == 3
\* a Chimera lattice has up to MaxGrid rows, columns and shore positions
MaxGrid == 3
\* the tile dimensions m, n, t asked for are 1 .. MaxTile
MaxTile == 2

Real(n) == 2 * n

\* the linear biases and the couplings the inputs are drawn from
LinearValues == {Real(0), Real(-1)}
QuadraticValues == {Real(-1), Real(0), Real(2)}

\* min_gain values the inputs are drawn from (reals)
GainValues == {0, 1}

None == <<>>
Some(x) == <<x>>

(************************** Python values **********************************)
PyDict(f) == [kind |-> "dict", val |-> f]
PyList(s) == [kind |-> "list", val |-> s]

Ok(v) == [ok |-> TRUE, val |-> v, err |-> ""]
Raise(e) == [ok |-> FALSE, val |-> <<>>, err |-> e]

\* len(sample)
PyLen(s) == IF s.kind = "list" THEN Len(s.val) ELSE Cardinality(DOMAIN s.val)

\* whether sample[k] is defined: a dict needs the key, a list an index in
\* -len .. len - 1 (a negative Python index counts from the end)
HasItem(s, k) ==
    IF s.kind = "list"
      THEN k >= -Len(s.val) /\ k < Len(s.val)
      ELSE k \in DOMAIN s.val

\* sample[k]
GetItem(s, k) ==
    IF s.kind = "list"
      THEN IF k >= 0 THEN s.val[k + 1] ELSE s.val[Len(s.val) + k + 1]
      ELSE s.val[k]

\* the error sample[k] raises when it is not defined
ItemError(s) == IF s.kind = "list" THEN "IndexError" ELSE "KeyError"

RECURSIVE SumOver(_, _)
\* sum(f[x] for x in S)
SumOver(S, f) ==
    IF S = {} THEN 0
    ELSE LET x == CHOOSE y \in S : TRUE
         IN f[x] + SumOver(S \ {x}, f)

SetMin(S) == CHOOSE x \in S : \A y \in S : x <= y

RECURSIVE Sorted(_)
\* sorted(S) for a set of integers: ascending
Sorted(S) ==
    IF S = {} THEN <<>>
    ELSE <<SetMin(S)>> \o Sorted(S \ {SetMin(S)})

\* Python's tuple order on (gain, variable) pairs
TupleLess(a, b) == a[1] < b[1] \/ (a[1] = b[1] /\ a[2] < b[2])

TupleMax(S) == CHOOSE x \in S : \A y \in S : y = x \/ TupleLess(y, x)

RECURSIVE SortReverse(_)
\* list.sort(reverse=True) of a list of distinct (gain, variable) pairs,
\* given as the set of its elements
SortReverse(S) ==
    IF S = {} THEN <<>>
    ELSE <<TupleMax(S)>> \o SortReverse(S \ {TupleMax(S)})

(************************ the model (dimod BQM) ****************************)
\* A model: vartype, linear (variable -> bias), quadratic ((u, v) -> bias,
\* one key per edge), offset.
Variables(bqm) == DOMAIN bqm.linear

\* vartype.value
VartypeValues(vartype) == IF vartype = "BINARY" THEN {0, 1} ELSE {-1, 1}

\* the keys of bqm.adj[u]
Neighbours(bqm, u) ==
    {v \in Variables(bqm) : <<u, v>> \in DOMAIN bqm.quadratic
                            \/ <<v, u>> \in DOMAIN bqm.quadratic}

\* bqm.adj[u][v], for v a neighbour of u
Coupling(bqm, u, v) ==
    IF <<u, v>> \in DOMAIN bqm.quadratic
      THEN bqm.quadratic[<<u, v>>]
      ELSE bqm.quadratic[<<v, u>>]

\* bqm.energy(sample), for a sample that defines every variable
Energy(bqm, s) ==
    bqm.offset
    + SumOver(Variables(bqm),
              [v \in Variables(bqm) |-> bqm.linear[v] * GetItem(s, v)])
    + SumOver(DOMAIN bqm.quadratic,
              [e \in DOMAIN bqm.quadratic |->
                  GetItem(s, e[1]) * GetItem(s, e[2]) * bqm.quadratic[e]])

\* whether bqm.energy(sample) finds every value it reads
EnergyDefined(bqm, s) == \A v \in Variables(bqm) : HasItem(s, v)

\* dimod.BinaryQuadraticModel({}, {}, 0.0, vartype)
EmptyModel(vartype) ==
    [vartype |-> vartype, linear |-> <<>>, quadratic |-> <<>>, offset |-> Real(0)]

\* f with key k set to x (added when new)
Put(f, k, x) == [y \in DOMAIN f \cup {k} |-> IF y = k THEN x ELSE f[y]]

\* f without the keys in K
Without(f, K) == [y \in DOMAIN f \ K |-> f[y]]

\* bqm.add_variable(v, bias): the bias is added to the one already there
add_variable(bqm, v, bias) ==
    [bqm EXCEPT !.linear =
        Put(bqm.linear, v,
            IF v \in DOMAIN bqm.linear THEN bqm.linear[v] + bias ELSE bias)]

\* bqm.add_interaction(u, v, bias), u # v: new variables get a zero linear
\* bias, the bias is added to the one the edge already has
add_interaction(bqm, u, v, bias) ==
    LET withVars == add_variable(add_variable(bqm, u, 0), v, 0)
        key == IF <<v, u>> \in DOMAIN bqm.quadratic THEN <<v, u>> ELSE <<u, v>>
    IN [withVars EXCEPT !.quadratic =
          Put(bqm.quadratic, key,
              IF key \in DOMAIN bqm.quadratic
                THEN bqm.quadratic[key] + bias ELSE bias)]

\* bqm.fix_variable(v, value), value one of vartype.value: the couplings of
\* v go into its neighbours' linear biases, its linear bias into the offset
fix_variable(bqm, v, value) ==
    LET rest == Variables(bqm) \ {v}
    IN [vartype |-> bqm.vartype,
        linear |-> [u \in rest |->
                      bqm.linear[u]
                      + (IF u \in Neighbours(bqm, v)
                           THEN value * Coupling(bqm, v, u) ELSE 0)],
        quadratic |-> Without(bqm.quadratic,
                        {e \in DOMAIN bqm.quadratic : e[1] = v \/ e[2] = v}),
        offset |-> bqm.offset + value * bqm.linear[v]]

\* bqm.remove_offset()
remove_offset(bqm) == [bqm EXCEPT !.offset = Real(0)]

\* bqm.copy(): a new object with the same content; its id is returned
Copy(h, id) == [heap |-> Append(h, h[id]), id |-> Len(h) + 1]

\* a new object
New(h, obj) == [heap |-> Append(h, obj), id |-> Len(h) + 1]

\* an exception leaves the objects the caller holds, and no result
Failed(h, e) == [heap |-> h, ret |-> Raise(e)]

\* a returned object, by its id
Returned(h, id) == [heap |-> h, ret |-> Ok(id)]

(***************************** subgraph algebra ****************************)
RECURSIVE FixLoop(_, _, _, _)
\* utils.py 45-46: for v in fixed: subbqm.fix_variable(v, fixed_values[v])
\* on the object sub, fixed given as a list
FixLoop(h, sub, fixed, fixed_values) ==
    IF fixed = <<>> THEN Returned(h, sub)
    ELSE LET v == Head(fixed)
         IN IF ~HasItem(fixed_values, v) THEN Failed(h, ItemError(fixed_values))
            ELSE IF GetItem(fixed_values, v) \notin VartypeValues(h[sub].vartype)
              THEN Failed(h, "ValueError")
            ELSE FixLoop([h EXCEPT ![sub] =
                             fix_variable(h[sub], v, GetItem(fixed_values, v))],
                         sub, Tail(fixed), fixed_values)

\* the reduction with "subbqm = bqm" in place of "subbqm = bqm.copy()"
ReducedInPlace(h, bqm, variables, fixed_values, keep_offset) ==
    LET fixed == Variables(h[bqm]) \ variables
        done == FixLoop(h, bqm, Sorted(fixed), fixed_values)
    IN IF ~done.ret.ok THEN done
       ELSE IF ~keep_offset
         THEN Returned([done.heap EXCEPT ![bqm] = remove_offset(done.heap[bqm])], bqm)
         ELSE done

\* the reduction with "if keep_offset" in place of "if not keep_offset"
ReducedOffsetInverted(h, bqm, variables, fixed_values, keep_offset) ==
    LET fixed == Variables(h[bqm]) \ variables
        copied == Copy(h, bqm)
        subbqm == copied.id
        done == FixLoop(copied.heap, subbqm, Sorted(fixed), fixed_values)
    IN IF ~done.ret.ok THEN done
       ELSE IF keep_offset
         THEN Returned([done.heap EXCEPT ![subbqm] = remove_offset(done.heap[subbqm])],
                       subbqm)
         ELSE done

\* bqm_reduced_to, utils.py 12-51, on the object bqm of the heap h
bqm_reduced_to(h, bqm, variables, fixed_values, keep_offset) ==
    LET fixed == Variables(h[bqm]) \ variables
        copied == Copy(h, bqm)
        subbqm == copied.id
        done == FixLoop(copied.heap, subbqm, Sorted(fixed), fixed_values)
    IN IF ~done.ret.ok THEN done
       ELSE IF ~keep_offset
         THEN Returned([done.heap EXCEPT ![subbqm] = remove_offset(done.heap[subbqm])],
                       subbqm)
         ELSE done

RECURSIVE AdjLoopNotHalved(_, _, _, _, _, _)
\* the inner loop with the coupling copied whole from both of its ends
AdjLoopNotHalved(sub, bias, bqm, variables, fixed_values, uAdj) ==
    LET u == uAdj[1]
        adj == uAdj[2]
    IN IF adj = <<>> THEN [ok |-> TRUE, sub |-> sub, bias |-> bias, err |-> ""]
       ELSE LET v == Head(adj)
                j == Coupling(bqm, u, v)
            IN IF v \in variables
                 THEN AdjLoopNotHalved(add_interaction(sub, u, v, j), bias, bqm,
                                       variables, fixed_values, <<u, Tail(adj)>>)
               ELSE IF ~HasItem(fixed_values, v)
                 THEN [ok |-> FALSE, sub |-> sub, bias |-> bias,
                       err |-> ItemError(fixed_values)]
               ELSE AdjLoopNotHalved(sub, bias + j * GetItem(fixed_values, v), bqm,
                                     variables, fixed_values, <<u, Tail(adj)>>)

RECURSIVE AdjLoop(_, _, _, _, _, _)
\* utils.py 97-101: for v, j in bqm.adj[u].items(), on the model sub and the
\* running bias; adj given as the list of u's neighbours
AdjLoop(sub, bias, bqm, variables, fixed_values, uAdj) ==
    LET u == uAdj[1]
        adj == uAdj[2]
    IN IF adj = <<>> THEN [ok |-> TRUE, sub |-> sub, bias |-> bias, err |-> ""]
       ELSE LET v == Head(adj)
                j == Coupling(bqm, u, v)
            IN IF v \in variables
                 THEN AdjLoop(add_interaction(sub, u, v, j \div 2), bias, bqm,
                              variables, fixed_values, <<u, Tail(adj)>>)
               ELSE IF ~HasItem(fixed_values, v)
                 THEN [ok |-> FALSE, sub |-> sub, bias |-> bias,
                       err |-> ItemError(fixed_values)]
               ELSE AdjLoop(sub, bias + j * GetItem(fixed_values, v), bqm,
                            variables, fixed_values, <<u, Tail(adj)>>)

RECURSIVE InduceLoop(_, _, _, _, _, _)
\* utils.py 95-102: for u in variables, on the object sub, variables given
\* as the list us
InduceLoop(h, sub, bqm, variables, fixed_values, us) ==
    IF us = <<>> THEN Returned(h, sub)
    ELSE LET u == Head(us)
         IN IF u \notin Variables(h[bqm]) THEN Failed(h, "KeyError")
            ELSE LET inner == AdjLoop(h[sub], h[bqm].linear[u], h[bqm], variables,
                                      fixed_values,
                                      <<u, Sorted(Neighbours(h[bqm], u))>>)
                 IN IF ~inner.ok THEN Failed(h, inner.err)
                    ELSE InduceLoop(
                           [h EXCEPT ![sub] = add_variable(inner.sub, u, inner.bias)],
                           sub, bqm, variables, fixed_values, Tail(us))

\* bqm_induced_by, utils.py 54-107, on the object bqm of the heap h
bqm_induced_by(h, bqm, variables, fixed_values) ==
    LET created == New(h, EmptyModel(h[bqm].vartype))
        subbqm == created.id
        done == InduceLoop(created.heap, subbqm, bqm, variables, fixed_values,
                           Sorted(variables))
    IN IF ~done.ret.ok THEN done
       ELSE Returned([done.heap EXCEPT ![subbqm] = remove_offset(done.heap[subbqm])],
                     subbqm)

RECURSIVE KeyList(_)
\* list(d) for the key set S of a dict: each key once
KeyList(S) ==
    IF S = {} THEN <<>>
    ELSE LET k == CHOOSE x \in S : TRUE IN <<k>> \o KeyList(S \ {k})

\* the edges with "or" in place of "and" in the filter
EdgesTouchingVariables(bqm, variables) ==
    LET edges == SelectSeq(KeyList(DOMAIN bqm.quadratic),
                           LAMBDA e : e[1] \in variables \/ e[2] \in variables)
        selfEdges == SelectSeq(KeyList(DOMAIN bqm.linear),
                               LAMBDA v : v \in variables)
    IN edges \o [i \in 1..Len(selfEdges) |-> <<selfEdges[i], selfEdges[i]>>]

\* bqm_edges_between_variables, utils.py 110-136
bqm_edges_between_variables(bqm, variables) ==
    LET edges == SelectSeq(KeyList(DOMAIN bqm.quadratic),
                           LAMBDA e : e[1] \in variables /\ e[2] \in variables)
        selfEdges == SelectSeq(KeyList(DOMAIN bqm.linear),
                               LAMBDA v : v \in variables)
    IN edges \o [i \in 1..Len(selfEdges) |-> <<selfEdges[i], selfEdges[i]>>]

(***************************** sample algebra ******************************)
\* sample_as_list with the length test off by one
SampleAsListOffByOne(s) ==
    IF s.kind = "list" THEN Ok(s)
    ELSE LET indices == Sorted(DOMAIN s.val)
         IN IF Len(indices) > 0
               /\ indices[Len(indices)] - indices[1] # Len(indices)
              THEN Raise("ValueError: incomplete sample dict")
              ELSE Ok(PyList([i \in 1..Len(indices) |-> s.val[indices[i]]]))

\* sample_as_list, utils.py 375-399
sample_as_list(s) ==
    IF s.kind = "list" THEN Ok(s)
    ELSE LET indices == Sorted(DOMAIN s.val)
         IN IF Len(indices) > 0
               /\ indices[Len(indices)] - indices[1] + 1 # Len(indices)
              THEN Raise("ValueError: incomplete sample dict")
              ELSE Ok(PyList([i \in 1..Len(indices) |-> s.val[indices[i]]]))

\* sample_as_dict with enumerate(sample, 1)
SampleAsDictFromOne(s) ==
    IF s.kind = "dict" THEN s
    ELSE PyDict([i \in 1..Len(s.val) |-> s.val[i]])

\* sample_as_dict, utils.py 402-410
sample_as_dict(s) ==
    IF s.kind = "dict" THEN s
    ELSE PyDict([i \in 0..(Len(s.val) - 1) |-> s.val[i + 1]])

\* sample_as_dict(sample) for the object sample of the heap h: a dict is
\* returned as it is, the same object; a list gives a new dict
SampleAsDictObject(h, id) ==
    IF h[id].kind = "dict" THEN [heap |-> h, id |-> id]
    ELSE New(h, sample_as_dict(h[id]))

RECURSIVE ReplaceLoop(_, _, _)
\* utils.py 370-371: for k, v in items: result[k] = v, on the dict result
ReplaceLoop(result, replacements, keys) ==
    IF keys = <<>> THEN result
    ELSE ReplaceLoop(PyDict(Put(result.val, Head(keys), replacements.val[Head(keys)])),
                     replacements, Tail(keys))

\* updated_sample with the copy left out
UpdatedSampleInPlace(h, smp, replacements) ==
    LET asdict == SampleAsDictObject(h, smp)
        repl == sample_as_dict(h[replacements])
        result == asdict.id
    IN Returned([asdict.heap EXCEPT ![result] =
                    ReplaceLoop(asdict.heap[result], repl, KeyList(DOMAIN repl.val))],
                result)

\* updated_sample, utils.py 353-372, on the objects smp and replacements of
\* the heap h
updated_sample(h, smp, replacements) ==
    LET asdict == SampleAsDictObject(h, smp)
        copied == Copy(asdict.heap, asdict.id)
        repl == sample_as_dict(h[replacements])
        result == copied.id
    IN Returned([copied.heap EXCEPT ![result] =
                    ReplaceLoop(copied.heap[result], repl, KeyList(DOMAIN repl.val))],
                result)

(****************************** Chimera tiling *****************************)
\* Python's a // b for b # 0: the floor of the quotient
FloorDiv(a, b) == IF b > 0 THEN a \div b ELSE (-a) \div (-b)

\* max(c[pos] for c in chimera_indices.values())
MaxCoordinate(indices, pos) ==
    CHOOSE x \in {indices[v][pos] : v \in DOMAIN indices} :
        \A v \in DOMAIN indices : indices[v][pos] <= x

\* the body of the loop of chimera_tiles with row / i (and col / j, aisle / k)
\* taken the wrong way round
PlaceSwapped(c, shape, dims) ==
    LET row == c[1] \div shape[1]
        i == c[1] % shape[1]
        col == c[2] \div shape[2]
        j == c[2] % shape[2]
        aisle == c[4] \div shape[3]
        k == c[4] % shape[3]
    IN [tile |-> <<row, col, aisle>>,
        target |-> <<((dims[2] * i + j) * 2 + c[3]) * dims[3] + k>>]

\* utils.py 338-348: the tile and the target of a variable with the Chimera
\* index c = (si, sj, u, sk); shape = (tile_rows, tile_columns,
\* tile_shore_length), dims = (m, n, t)
Place(c, shape, dims) ==
    LET row == c[1] % shape[1]
        i == c[1] \div shape[1]
        col == c[2] % shape[2]
        j == c[2] \div shape[2]
        aisle == c[4] % shape[3]
        k == c[4] \div shape[3]
    IN [tile |-> <<row, col, aisle>>,
        target |-> <<((dims[2] * i + j) * 2 + c[3]) * dims[3] + k>>]

\* chimera_tiles, utils.py 290-350; lab is what canonical_chimera_labeling
\* gives: a failure, or the Chimera index of every variable
chimera_tiles(lab, m, n, t) ==
    IF ~lab.ok THEN Raise("ValueError: non-Chimera structured problem")
    ELSE IF DOMAIN lab.val = {} THEN Raise("ValueError")
    ELSE LET chimera_indices == lab.val
             max_m == MaxCoordinate(chimera_indices, 1) + 1
             max_n == MaxCoordinate(chimera_indices, 2) + 1
             max_t == MaxCoordinate(chimera_indices, 4) + 1
             tile_rows == -FloorDiv(max_m, -m)
             tile_columns == -FloorDiv(max_n, -n)
             tile_shore_length == -FloorDiv(max_t, -t)
             shape == <<tile_rows, tile_columns, tile_shore_length>>
             keys == (0..(tile_rows - 1)) \X (0..(tile_columns - 1))
                       \X (0..(tile_shore_length - 1))
             placed(v) == Place(chimera_indices[v], shape, <<m, n, t>>)
         IN IF \E v \in DOMAIN chimera_indices : placed(v).tile \notin keys
              THEN Raise("KeyError")
              ELSE Ok([key \in keys |->
                        [v \in {w \in DOMAIN chimera_indices : placed(w).tile = key}
                           |-> placed(v).target]])

(******************************* move ranker *******************************)
\* sample[:i] + [flip(val)] + sample[i+1:], i a Python index
FlippedList(s, i, flipped) ==
    PyList([k \in 1..Len(s.val) |-> IF k = i + 1 THEN flipped ELSE s.val[k]])

\* flip_energy_gains_naive, utils.py 139-158
flip_energy_gains_naive(bqm, s) ==
    IF bqm.vartype \notin {"BINARY", "SPIN"}
      THEN Raise("ValueError: vartype not supported")
    ELSE IF ~EnergyDefined(bqm, s) THEN Raise(ItemError(s))
    ELSE LET flip(val) == IF bqm.vartype = "BINARY" THEN 1 - val ELSE -val
             base == Energy(bqm, s)
             aslist == sample_as_list(s)
         IN IF ~aslist.ok THEN aslist
            ELSE LET lst == aslist.val
                     flippedAt(i) == FlippedList(lst, i, flip(lst.val[i + 1]))
                     positions == 0..(Len(lst.val) - 1)
                 IN IF \E i \in positions : ~EnergyDefined(bqm, flippedAt(i))
                      THEN Raise(ItemError(lst))
                      ELSE Ok(SortReverse(
                             {<<Energy(bqm, flippedAt(i)) - base, i>> :
                                 i \in positions}))

\* the loop body of flip_energy_gains_iterative, utils.py 210: contrib
Contrib(bqm, smp, idx) ==
    bqm.linear[idx]
    + SumOver(Neighbours(bqm, idx),
              [neigh \in Neighbours(bqm, idx) |->
                  Coupling(bqm, idx, neigh) * smp.val[neigh]])

\* delta, utils.py 194-201
Delta(vartype, val) == IF vartype = "BINARY" THEN 1 - 2 * val ELSE -2 * val

\* the iterative gains with the SPIN delta used for both vartypes
FlipGainsSpinDelta(bqm, s) ==
    LET smp == sample_as_dict(s)
    IN Ok(SortReverse(
          {<<Contrib(bqm, smp, idx) * Delta("SPIN", smp.val[idx]), idx>> :
              idx \in DOMAIN smp.val}))

\* flip_energy_gains_iterative, utils.py 167-214
flip_energy_gains_iterative(bqm, s) ==
    IF bqm.vartype \notin {"BINARY", "SPIN"}
      THEN Raise("ValueError: vartype not supported")
    ELSE LET smp == sample_as_dict(s)
         IN IF \E idx \in DOMAIN smp.val :
                   \/ idx \notin Variables(bqm)
                   \/ \E neigh \in Neighbours(bqm, idx) : neigh \notin DOMAIN smp.val
              THEN Raise("KeyError")
              ELSE Ok(SortReverse(
                     {<<Contrib(bqm, smp, idx) * Delta(bqm.vartype, smp.val[idx]),
                        idx>> : idx \in DOMAIN smp.val}))

\* flip_energy_gains = flip_energy_gains_iterative, utils.py 217
flip_energy_gains(bqm, s) == flip_energy_gains_iterative(bqm, s)

\* variables[:max_n], a Python slice of a list
SliceTo(lst, n) ==
    LET stop == IF n >= 0 THEN (IF n < Len(lst) THEN n ELSE Len(lst))
                ELSE (IF Len(lst) + n > 0 THEN Len(lst) + n ELSE 0)
    IN SubSeq(lst, 1, stop)

\* [var for _, var in gains]
VarsOf(gains) == [i \in 1..Len(gains) |-> gains[i][2]]

\* the selection with "if not min_gain" in place of "if min_gain is None"
SelectZeroGainUnfiltered(bqm, s, max_n, min_gain) ==
    LET gains == flip_energy_gains(bqm, s)
    IN IF ~gains.ok THEN gains
       ELSE LET var_gains == gains.val
                n == IF max_n = None THEN PyLen(s) ELSE max_n[1]
                variables ==
                  IF min_gain = None \/ min_gain[1] = 0
                    THEN VarsOf(var_gains)
                    ELSE VarsOf(SelectSeq(var_gains,
                                          LAMBDA g : g[1] >= Real(min_gain[1])))
            IN Ok(SliceTo(variables, n))

\* select_localsearch_adversaries, utils.py 220-262
select_localsearch_adversaries(bqm, s, max_n, min_gain) ==
    LET gains == flip_energy_gains(bqm, s)
    IN IF ~gains.ok THEN gains
       ELSE LET var_gains == gains.val
                n == IF max_n = None THEN PyLen(s) ELSE max_n[1]
                variables ==
                  IF min_gain = None
                    THEN VarsOf(var_gains)
                    ELSE VarsOf(SelectSeq(var_gains,
                                          LAMBDA g : g[1] >= Real(min_gain[1])))
            IN Ok(SliceTo(variables, n))

(******************************* inputs ************************************)
Labels(base, n) == base..(base + n - 1)

\* the edge sets over V keyed (u, v) with u < v
OrderedEdgeSets(V) ==
    {Q \in SUBSET {e \in V \X V : e[1] < e[2]} : Cardinality(Q) <= MaxTerms}

\* the edge sets over V that hold each edge once, in either orientation
EdgeSets(V) ==
    {Q \in SUBSET {e \in V \X V : e[1] # e[2]} :
        /\ Cardinality(Q) <= MaxTerms
        /\ \A e \in Q : <<e[2], e[1]>> \notin Q}

NonZero(linear) == Cardinality({v \in DOMAIN linear : linear[v] # 0})

\* the models over the variables V whose edge set is one of edgeSets and
\* that have at most MaxTerms terms
BoundedModels(V, edgeSets) ==
    UNION {
      {[vartype |-> vt, linear |-> lin, quadratic |-> quad, offset |-> Real(0)] :
          vt \in {"BINARY", "SPIN"},
          lin \in {l \in [V -> LinearValues] :
                     NonZero(l) + Cardinality(Q) <= MaxTerms},
          quad \in [Q -> QuadraticValues]} : Q \in edgeSets}

\* the total assignments over V with values of the vartype, as dicts and,
\* when the labels are 0 .. n-1, as lists too
Assignments(V, vartype) ==
    LET maps == [V -> VartypeValues(vartype)]
    IN {PyDict(f) : f \in maps}
       \cup (IF V = 0..(Cardinality(V) - 1)
               THEN {PyList([i \in 1..Cardinality(V) |-> f[i - 1]]) : f \in maps}
               ELSE {})

Idle == [op |-> "idle", args |-> <<>>]

NoSample == PyDict(<<>>)

\* f without its largest key
DropLargest(f) == Without(f, {CHOOSE k \in DOMAIN f : \A y \in DOMAIN f : y <= k})

\* dicts over the keys D with values in vals, and each of them with its
\* largest key missing
DictsOver(D, vals) == {PyDict(f) : f \in [D -> vals]}

DictsMissingOne(D, vals) ==
    IF D = {} THEN {} ELSE {PyDict(DropLargest(f)) : f \in [D -> vals]}

\* the neighbours of the core outside the core
Boundary(bqm, core) == UNION {Neighbours(bqm, u) : u \in core} \ core

\* boundary values bqm_induced_by is given (utils.py 84 gives 3)
BoundaryValues == {-1, 1, 3}

(************************** subgraph algebra runs **************************)
Init ==
    /\ \E n \in 1..MaxVars :
          heap \in {<<m>> : m \in BoundedModels(Labels(0, n), OrderedEdgeSets(Labels(0, n)))}
    /\ sample = NoSample
    /\ labeling = <<>>
    /\ call = Idle
    /\ ret = Ok(<<>>)

BqmReducedTo ==
    /\ call = Idle
    /\ \E variables \in SUBSET Variables(heap[1]), keep_offset \in BOOLEAN :
         LET fixed == Variables(heap[1]) \ variables
             values == VartypeValues(heap[1].vartype)
         IN \E fixed_values \in DictsOver(fixed, values)
                                  \cup DictsMissingOne(fixed, values) :
               LET r == bqm_reduced_to(heap, 1, variables, fixed_values, keep_offset)
               IN /\ call' = [op |-> "bqm_reduced_to",
                              args |-> <<variables, fixed_values, keep_offset>>]
                  /\ heap' = r.heap
                  /\ ret' = r.ret
    /\ UNCHANGED <<sample, labeling>>

BqmInducedBy ==
    /\ call = Idle
    /\ \E variables \in SUBSET Variables(heap[1]) :
         LET boundary == Boundary(heap[1], variables)
         IN \E fixed_values \in DictsOver(boundary, BoundaryValues)
                                  \cup DictsMissingOne(boundary, BoundaryValues) :
               LET r == bqm_induced_by(heap, 1, variables, fixed_values)
               IN /\ call' = [op |-> "bqm_induced_by",
                              args |-> <<variables, fixed_values>>]
                  /\ heap' = r.heap
                  /\ ret' = r.ret
    /\ UNCHANGED <<sample, labeling>>

Next ==
    \/ BqmReducedTo
    \/ BqmInducedBy

Spec == Init /\ [][Next]_vars

(***************************** claims: subgraph ****************************)
\* the call made, its arguments and its result
Called(op) == call.op = op
Result == heap[ret.val]

\* the map f extended by the map g on other keys
Joined(f, g) == [k \in DOMAIN f \cup DOMAIN g |-> IF k \in DOMAIN f THEN f[k] ELSE g[k]]

\* C2: a reduction that keeps the offset preserves energy: the model
\* bqm_reduced_to returns has exactly the kept variables, and on every
\* assignment of them it has the energy the original model has on that
\* assignment together with the fixed values; the call succeeds whenever
\* every variable outside the kept ones has a fixed value.
C2_ReductionPreservesEnergy ==
    Called("bqm_reduced_to") =>
      LET kept == call.args[1]
          fixed_values == call.args[2].val
          keep_offset == call.args[3]
          fixed == Variables(heap[1]) \ kept
      IN /\ ret.ok <=> fixed \subseteq DOMAIN fixed_values
         /\ ret.ok =>
              /\ Variables(Result) = kept
              /\ \A e \in DOMAIN Result.quadratic : e[1] \in kept /\ e[2] \in kept
              /\ keep_offset =>
                   \A t \in [kept -> VartypeValues(heap[1].vartype)] :
                      Energy(Result, PyDict(t))
                        = Energy(heap[1], PyDict(Joined(t, fixed_values)))

\* a reduction that fixed a variable with a linear bias and a coupling into
\* the kept part
C2_Witness ==
    /\ Called("bqm_reduced_to")
    /\ ret.ok
    /\ call.args[3]
    /\ call.args[1] # {}
    /\ Result.offset # 0
    /\ \E u \in call.args[1] : Result.linear[u] # heap[1].linear[u]

\* C5: the model bqm_induced_by returns has exactly the core variables, one
\* quadratic term per pair of adjacent core variables, equal to the original
\* coupling, and no other; the linear bias of a core variable is its original
\* bias plus the sum of coupling times boundary value over its neighbours
\* outside the core; the offset is zero.  The call succeeds whenever every
\* neighbour of the core outside it has a boundary value.
C5_InducedModel ==
    Called("bqm_induced_by") =>
      LET core == call.args[1]
          fixed_values == call.args[2].val
          bqm == heap[1]
          outside(u) == Neighbours(bqm, u) \ core
      IN /\ ret.ok <=> Boundary(bqm, core) \subseteq DOMAIN fixed_values
         /\ ret.ok =>
              /\ Variables(Result) = core
              /\ \A e \in DOMAIN Result.quadratic :
                    /\ e[1] \in core /\ e[2] \in core
                    /\ e[2] \in Neighbours(bqm, e[1])
                    /\ <<e[2], e[1]>> \notin DOMAIN Result.quadratic
                    /\ Result.quadratic[e] = Coupling(bqm, e[1], e[2])
              /\ \A u \in core : \A v \in Neighbours(bqm, u) \cap core :
                    <<u, v>> \in DOMAIN Result.quadratic
                    \/ <<v, u>> \in DOMAIN Result.quadratic
              /\ \A u \in core :
                    Result.linear[u]
                      = bqm.linear[u]
                        + SumOver(outside(u),
                                  [w \in outside(u) |->
                                      Coupling(bqm, u, w) * fixed_values[w]])
              /\ Result.offset = 0

\* an induced model with a coupled core pair and a boundary variable that
\* changed a linear bias
C5_Witness ==
    /\ Called("bqm_induced_by")
    /\ ret.ok
    /\ \E e \in DOMAIN Result.quadratic : Result.quadratic[e] # 0
    /\ \E u \in call.args[1] : Result.linear[u] # heap[1].linear[u]

\* C8: bqm_reduced_to and bqm_induced_by leave the model they are given as
\* it was, also when they fail, and what they return is another object.
C8_InputModelUnchanged ==
    [][(call'.op \in {"bqm_reduced_to", "bqm_induced_by"})
         => /\ heap'[1] = heap[1]
            /\ ret'.ok => ret'.val # 1 /\ ret'.val \in 2..Len(heap')]_vars

\* a reduction that failed for a missing fixed value after it had fixed
\* another variable in its copy
C8_Witness ==
    /\ Called("bqm_reduced_to")
    /\ ~ret.ok
    /\ Len(heap) > 1
    /\ Variables(heap[2]) # Variables(heap[1])

(********************************* edges run *******************************)
InitEdges ==
    /\ \E n \in 1..MaxVars :
          heap \in {<<m>> : m \in BoundedModels(Labels(0, n), EdgeSets(Labels(0, n)))}
    /\ sample = NoSample
    /\ labeling = <<>>
    /\ call = Idle
    /\ ret = Ok(<<>>)

\* the variables asked for may hold a label the model does not have
BqmEdgesBetweenVariables ==
    /\ call = Idle
    /\ \E variables \in SUBSET (0..Cardinality(Variables(heap[1]))) :
          /\ call' = [op |-> "bqm_edges_between_variables", args |-> <<variables>>]
          /\ ret' = Ok(bqm_edges_between_variables(heap[1], variables))
    /\ UNCHANGED <<heap, sample, labeling>>

NextEdges == BqmEdgesBetweenVariables

SpecEdges == InitEdges /\ [][NextEdges]_vars

(****************************** claims: edges ******************************)
\* C6: the list bqm_edges_between_variables returns has no edge twice and no
\* edge with an endpoint outside the variables asked for; it has every
\* quadratic edge of the model with both endpoints among them, and the
\* self-edge (v, v) of every one of them that has a linear bias.
C6_EdgesBetweenVariables ==
    Called("bqm_edges_between_variables") =>
      LET asked == call.args[1]
          edges == ret.val
          listed == {edges[i] : i \in 1..Len(edges)}
      IN /\ \A i, j \in 1..Len(edges) : edges[i] = edges[j] => i = j
         /\ \A e \in listed : e[1] \in asked /\ e[2] \in asked
         /\ \A e \in DOMAIN heap[1].quadratic :
               e[1] \in asked /\ e[2] \in asked => e \in listed
         /\ \A v \in asked \cap Variables(heap[1]) : <<v, v>> \in listed

\* a list with a kept edge, while another edge of the model leaves the
\* variables asked for
C6_Witness ==
    /\ Called("bqm_edges_between_variables")
    /\ \E i \in 1..Len(ret.val) : ret.val[i][1] # ret.val[i][2]
    /\ \E e \in DOMAIN heap[1].quadratic :
          e[1] \in call.args[1] /\ e[2] \notin call.args[1]

(**************************** move ranker runs *****************************)
InitFlip ==
    /\ \E n \in 1..MaxVars, base \in Bases :
          \E m \in BoundedModels(Labels(base, n), OrderedEdgeSets(Labels(base, n))) :
             /\ heap = <<m>>
             /\ sample \in Assignments(Labels(base, n), m.vartype)
    /\ labeling = <<>>
    /\ call = Idle
    /\ ret = Ok(<<>>)

FlipEnergyGainsNaive ==
    /\ call = Idle
    /\ call' = [op |-> "flip_energy_gains_naive", args |-> <<>>]
    /\ ret' = flip_energy_gains_naive(heap[1], sample)
    /\ UNCHANGED <<heap, sample, labeling>>

FlipEnergyGainsIterative ==
    /\ call = Idle
    /\ call' = [op |-> "flip_energy_gains_iterative", args |-> <<>>]
    /\ ret' = flip_energy_gains_iterative(heap[1], sample)
    /\ UNCHANGED <<heap, sample, labeling>>

NextFlip ==
    \/ FlipEnergyGainsNaive
    \/ FlipEnergyGainsIterative

SpecFlip == InitFlip /\ [][NextFlip]_vars

InitSelect ==
    /\ \E n \in 1..MaxVars :
          \E m \in BoundedModels(Labels(0, n), OrderedEdgeSets(Labels(0, n))) :
             /\ heap = <<m>>
             /\ sample \in DictsOver(Labels(0, n), VartypeValues(m.vartype))
    /\ labeling = <<>>
    /\ call = Idle
    /\ ret = Ok(<<>>)

SelectLocalsearchAdversaries ==
    /\ call = Idle
    /\ \E max_n \in {None} \cup {Some(k) : k \in 0..MaxN},
          min_gain \in {None} \cup {Some(g) : g \in GainValues} :
          /\ call' = [op |-> "select_localsearch_adversaries",
                      args |-> <<max_n, min_gain>>]
          /\ ret' = select_localsearch_adversaries(heap[1], sample, max_n, min_gain)
    /\ UNCHANGED <<heap, sample, labeling>>

NextSelect == SelectLocalsearchAdversaries

SpecSelect == InitSelect /\ [][NextSelect]_vars

(*************************** claims: move ranker ***************************)
\* the value of a variable after a flip
Flip(vartype, val) == IF vartype = "BINARY" THEN 1 - val ELSE -val

\* the assignment with only v flipped
FlippedAt(bqm, assignment, v) ==
    [assignment EXCEPT ![v] = Flip(bqm.vartype, assignment[v])]

\* the gain of flipping v, by two evaluations of the whole-model energy
BruteForceGain(bqm, assignment, v) ==
    Energy(bqm, PyDict(FlippedAt(bqm, assignment, v))) - Energy(bqm, PyDict(assignment))

\* the descending ranking of the brute-force gains
BruteForceGains(bqm, assignment) ==
    LET before == Energy(bqm, PyDict(assignment))
    IN SortReverse({<<Energy(bqm, PyDict(FlippedAt(bqm, assignment, v))) - before, v>> :
                       v \in Variables(bqm)})

\* the sample as a map from labels to values
AsMap(s) == IF s.kind = "dict" THEN s.val ELSE [i \in 0..(Len(s.val) - 1) |-> s.val[i + 1]]

ZeroBased(V) == V = 0..(Cardinality(V) - 1)

C7_SelectAdversaries ==
    Called("select_localsearch_adversaries") =>
      LET max_n == call.args[1]
          min_gain == call.args[2]
          ranking == BruteForceGains(heap[1], AsMap(sample))
          places == 1..Len(ranking)
          qualifying == Sorted({i \in places :
                                  min_gain = None \/ ranking[i][1] >= Real(min_gain[1])})
          count == IF max_n = None \/ max_n[1] >= Len(qualifying)
                     THEN Len(qualifying) ELSE max_n[1]
          selected == {ret.val[i] : i \in 1..Len(ret.val)}
      IN /\ ret.ok
         /\ ret.val = [i \in 1..count |-> ranking[qualifying[i]][2]]
         /\ max_n # None => Len(ret.val) <= max_n[1]
         /\ min_gain # None =>
              \A i \in places :
                 ranking[i][2] \in selected => ranking[i][1] >= Real(min_gain[1])
         /\ (max_n = None \/ Len(ret.val) < max_n[1]) =>
              \A i \in places :
                 (min_gain = None \/ ranking[i][1] >= Real(min_gain[1]))
                   => ranking[i][2] \in selected
         /\ min_gain = None /\ max_n = None => Len(ret.val) = Len(ranking)

\* a selection with min_gain 0 that filtered a variable out and cut the
\* qualifying ones to max_n
C7_Witness ==
    /\ Called("select_localsearch_adversaries")
    /\ call.args[2] = Some(0)
    /\ call.args[1] # None
    /\ Len(ret.val) = call.args[1][1]
    /\ Len(ret.val) > 0
    /\ \E v \in Variables(heap[1]) : BruteForceGain(heap[1], AsMap(sample), v) < 0
    /\ Cardinality({v \in Variables(heap[1]) :
                      BruteForceGain(heap[1], AsMap(sample), v) >= 0}) > Len(ret.val)

(**************************** sample algebra runs **************************)
SampleValues == {0, 1}

\* the samples: dicts over any labels of 0 .. MaxLabel, and lists
Samples ==
    UNION {DictsOver(D, SampleValues) : D \in SUBSET (0..MaxLabel)}
    \cup UNION {{PyList(l) : l \in [1..n -> SampleValues]} : n \in 0..MaxLabel}

InitSample ==
    /\ heap \in {<<a, b>> : a \in Samples, b \in Samples}
    /\ sample = NoSample
    /\ labeling = <<>>
    /\ call = Idle
    /\ ret = Ok(<<>>)

SampleAsList ==
    /\ call = Idle
    /\ call' = [op |-> "sample_as_list", args |-> <<>>]
    /\ ret' = sample_as_list(heap[1])
    /\ UNCHANGED <<heap, sample, labeling>>

\* sample_as_dict(sample_as_list(a))
SampleRoundTrip ==
    /\ call = Idle
    /\ call' = [op |-> "round_trip", args |-> <<>>]
    /\ ret' = LET lst == sample_as_list(heap[1])
              IN IF lst.ok THEN Ok(sample_as_dict(lst.val)) ELSE lst
    /\ UNCHANGED <<heap, sample, labeling>>

UpdatedSample ==
    /\ call = Idle
    /\ call' = [op |-> "updated_sample", args |-> <<>>]
    /\ LET r == updated_sample(heap, 1, 2)
       IN heap' = r.heap /\ ret' = r.ret
    /\ UNCHANGED <<sample, labeling>>

NextSample ==
    \/ SampleAsList
    \/ SampleRoundTrip
    \/ UpdatedSample

SpecSample == InitSample /\ [][NextSample]_vars

(***************************** claims: samples *****************************)
Keys(s) == DOMAIN AsMap(s)

SetMax(S) == CHOOSE x \in S : \A y \in S : y <= x

\* a set of integer labels without a gap
Contiguous(K) == K = {} \/ K = SetMin(K)..SetMax(K)

IsDict(s) == s.kind = "dict"

\* C3 as stated: the round trip gives back any map with contiguous integer
\* labels, whatever its smallest label.
C3_RoundTrip ==
    Called("round_trip") /\ IsDict(heap[1]) /\ Contiguous(Keys(heap[1])) =>
      ret = Ok(heap[1])

\* C3 as amended: for a map a with contiguous integer labels the round trip
\* gives the map that sends i to the value of a at (smallest label of a) + i,
\* for i in 0 .. n-1: it is a itself exactly when a is empty or its smallest
\* label is 0.
C3_RoundTripFromZero ==
    Called("round_trip") /\ IsDict(heap[1]) /\ Contiguous(Keys(heap[1])) =>
      LET a == heap[1].val
          n == Cardinality(DOMAIN a)
      IN /\ ret.ok
         /\ ret.val = PyDict([i \in 0..(n - 1) |-> a[SetMin(DOMAIN a) + i]])
         /\ ret.val = heap[1] <=> (n = 0 \/ SetMin(DOMAIN a) = 0)

\* a round trip of a map with several labels, the smallest of them 0, and
\* values that differ
C3_Witness ==
    /\ Called("round_trip")
    /\ IsDict(heap[1])
    /\ ret = Ok(heap[1])
    /\ \E k, l \in Keys(heap[1]) : heap[1].val[k] # heap[1].val[l]

\* C4: sample_as_list of a map with integer labels fails with the
\* incomplete-sample error exactly when the labels have a gap; otherwise it
\* returns the values in ascending label order, one per label.
C4_AsListFailsOnGap ==
    Called("sample_as_list") /\ IsDict(heap[1]) =>
      LET a == heap[1].val
      IN /\ ~ret.ok <=> ~Contiguous(DOMAIN a)
         /\ ~ret.ok => ret = Raise("ValueError: incomplete sample dict")
         /\ ret.ok =>
              /\ ret.val.kind = "list"
              /\ Len(ret.val.val) = Cardinality(DOMAIN a)
              /\ \A i \in 1..Len(ret.val.val) :
                    ret.val.val[i] = a[SetMin(DOMAIN a) + i - 1]

\* a failure on a map whose labels have a gap
C4_Witness ==
    /\ Called("sample_as_list")
    /\ IsDict(heap[1])
    /\ ~ret.ok
    /\ Cardinality(Keys(heap[1])) > 1

\* C9: updated_sample returns a new map: its keys are the keys of the base
\* and of the overrides, its value at a key of the overrides is the override
\* and at any other key the value of the base; the base and the overrides
\* are left as they were.
C9_UpdatedSample ==
    [][call'.op = "updated_sample" =>
         LET result == heap'[ret'.val]
         IN /\ ret'.ok
            /\ ret'.val \notin {1, 2}
            /\ heap'[1] = heap[1]
            /\ heap'[2] = heap[2]
            /\ IsDict(result)
            /\ DOMAIN result.val = Keys(heap[1]) \cup Keys(heap[2])
            /\ \A k \in DOMAIN result.val :
                  result.val[k] = IF k \in Keys(heap[2])
                                    THEN AsMap(heap[2])[k] ELSE AsMap(heap[1])[k]]_vars

\* an update of a dict that replaced a value, kept a value and added a key
C9_Witness ==
    /\ Called("updated_sample")
    /\ IsDict(heap[1]) /\ IsDict(heap[2])
    /\ \E k \in Keys(heap[1]) \cap Keys(heap[2]) : heap[1].val[k] # heap[2].val[k]
    /\ Keys(heap[1]) \ Keys(heap[2]) # {}
    /\ Keys(heap[2]) \ Keys(heap[1]) # {}
    /\ heap[ret.val] # heap[1]

(****************************** Chimera runs *******************************)
\* the Chimera indices of a gm-by-gn lattice with shores of gt
Lattice(gm, gn, gt) == (0..(gm - 1)) \X (0..(gn - 1)) \X {0, 1} \X (0..(gt - 1))

\* the label chimera_graph gives the node with the Chimera index c
LinearIndex(c, gn, gt) == ((c[1] * gn + c[2]) * 2 + c[3]) * gt + c[4]

\* the labelings of a lattice, whole or with one node of its last cell
\* missing
Labelings(gm, gn, gt) ==
    LET whole == Lattice(gm, gn, gt)
        of(nodes) == [ok |-> TRUE,
                      val |-> [v \in {LinearIndex(c, gn, gt) : c \in nodes} |->
                                 CHOOSE c \in nodes : LinearIndex(c, gn, gt) = v]]
    IN {of(whole)}
       \cup {of(whole \ {c}) : c \in {d \in whole : d[1] = gm - 1 /\ d[2] = gn - 1}}

NotChimera == [ok |-> FALSE, val |-> <<>>]

InitChimera ==
    /\ heap = <<>>
    /\ sample = NoSample
    /\ \/ \E gm, gn, gt \in 1..MaxGrid : labeling \in Labelings(gm, gn, gt)
       \/ labeling = NotChimera
    /\ call = Idle
    /\ ret = Ok(<<>>)

ChimeraTiles ==
    /\ call = Idle
    /\ \E m, n, t \in 1..MaxTile :
          /\ call' = [op |-> "chimera_tiles", args |-> <<m, n, t>>]
          /\ ret' = chimera_tiles(labeling, m, n, t)
    /\ UNCHANGED <<heap, sample, labeling>>

NextChimera == ChimeraTiles

SpecChimera == InitChimera /\ [][NextChimera]_vars

(***************************** claims: Chimera *****************************)
\* C10: chimera_tiles puts every variable of a Chimera-structured model in
\* exactly one tile, with a single target index in 0 .. 2*m*n*t - 1, and
\* gives no two variables of a tile the same target index.
C10_ChimeraTiles ==
    Called("chimera_tiles") /\ labeling.ok /\ DOMAIN labeling.val # {} =>
      LET m == call.args[1]
          n == call.args[2]
          t == call.args[3]
          tiles == ret.val
      IN /\ ret.ok
         /\ \A v \in DOMAIN labeling.val :
               Cardinality({key \in DOMAIN tiles : v \in DOMAIN tiles[key]}) = 1
         /\ \A key \in DOMAIN tiles :
               /\ DOMAIN tiles[key] \subseteq DOMAIN labeling.val
               /\ \A v \in DOMAIN tiles[key] :
                     /\ Len(tiles[key][v]) = 1
                     /\ tiles[key][v][1] \in 0..(2 * m * n * t - 1)
               /\ \A v, w \in DOMAIN tiles[key] :
                     tiles[key][v] = tiles[key][w] => v = w

\* a tiling into several tiles, one of them with a variable in its second row
C10_Witness ==
    /\ Called("chimera_tiles")
    /\ ret.ok
    /\ Cardinality(DOMAIN ret.val) > 1
    /\ \E key \in DOMAIN ret.val : \E v \in DOMAIN ret.val[key] :
          ret.val[key][v][1] >= 2 * call.args[2] * call.args[3]

====
